---- MODULE Spec2Model ----
(***************************************************************************)
(* Generation orchestrator of shungene-for-Contents.                       *)
(*                                                                         *)
(*   src/App.tsx                  the React component that owns the        *)
(*                                pipeline state and the handlers          *)
(*   src/services/geminiService.ts, src/unnamed/part_001                   *)
(*                                the provider calls and retryWithBackoff  *)
(*                                                                         *)
(* Every asynchronous handler is cut at its awaits: one action per         *)
(* synchronous stretch of code.  React state setters of one stretch are    *)
(* applied together at its end.  Sequences are 1-based: slide position i   *)
(* of the model is index i-1 of the code.                                  *)
(*                                                                         *)
(* The handlers are the operations: the view may call each of them while   *)
(* App is mounted.  Of each asynchronous handler one activation is in      *)
(* flight at a time.                                                       *)
(*                                                                         *)
(*   Spec           the slide operations and the visual run interleaved    *)
(*   SeqSpec        one operation at a time                                *)
(*   PhaseSpec      the phase operations as the view allows them,          *)
(*                  interleaved with the calls in flight                   *)
(*   RetryFairSpec  retryWithBackoff, every awaited promise settling       *)
(***************************************************************************)
EXTENDS Integers, Sequences, FiniteSets, TLC

(***************************************************************************)
(* Bounds of the model.                                                    *)
(***************************************************************************)
\* number of screens a composed SwipeLP holds
NumSlides == 2
\* a regeneration is requested while the screens hold fewer history and
\* redoHistory entries than this: one operation at a time
MaxHist == 2
\* and with the operations interleaved
MaxConcHist == 1
\* largest value of Date.now() the model distinguishes
MaxClock == 1
\* largest value of the `retries` parameter of retryWithBackoff
MaxRetries == 3
\* most files uploaded at a time
MaxFiles == 1
\* most activations of handleAnalyze awaiting their Provider call at a time
MaxInFlight == 2
\* longest text given to sanitizeCopy
MaxCopyLen == 4
\* most pieces of a response text given to parseJsonResponse
MaxTextLen == 4
\* most pieces of a response text given to analyzeProductContext and
\* generateSwipeLP
MaxResponseLen == 3
\* most entries of the screens array of a response
MaxScreens == 2

(***************************************************************************)
(* Program constants.                                                      *)
(***************************************************************************)
\* retryWithBackoff: retries = 3
DefaultRetries == 3
\* retryWithBackoff: initialDelay = 2000
DefaultInitialDelay == 2000
\* retryWithBackoff: factor = 2
DefaultFactor == 2
\* handleStartVisualPhase: setTimeout(resolve, 2000)
InterSlideDelay == 2000
\* error.status === 429
StatusRateLimit == 429
\* error.status === 503
StatusOverload == 503

VARIABLES
  \* ---- React state of App (src/App.tsx:12-25)
  hasApiKey,            \* useState<boolean>
  files,                \* number of uploaded files (files.length)
  appState,             \* AppState
  productProfile,       \* ProductProfile | null
  swipeLP,              \* SwipeLP | null
  error,                \* string | null
  visualProgressIndex,  \* -1, or the 0-based index being processed
  \* ---- activations of the asynchronous handlers
  analyze,              \* handleAnalyze: the activations awaiting
  compose,              \* handleGenerateLP
  vis,                  \* handleStartVisualPhase
  regen,                \* handleRegenerateVisual
  regenScreen,          \* handleRegenerateScreen
  \* ---- environment
  isMangaModeBound,     \* does the free identifier isMangaMode resolve
  clock,                \* Date.now() as read last
  \* ---- retryWithBackoff (src/services/geminiService.ts:11-37)
  retry,
  \* ---- the function of geminiService applied last, its argument and
  \*      its outcome
  service,
  \* ---- observation only: never read by an action's guard or effect
  lastOp,               \* the operation step taken last
  callLog,              \* Provider calls of the visual run in flight, and
                        \* the errors it caught without one
  runStart              \* the screens that run started from

appVars == <<hasApiKey, files, appState, productProfile, swipeLP, error,
             visualProgressIndex>>
actVars == <<analyze, compose, vis, regen, regenScreen>>
envVars == <<isMangaModeBound, clock>>
obsVars == <<lastOp, callLog, runStart>>
vars == <<appVars, actVars, envVars, retry, service, obsVars>>

(***************************************************************************)
(* Values.                                                                 *)
(***************************************************************************)
\* an absent optional field (designSpec?, imageData?), and null
Undefined == "undefined"
\* the design spec a composed screen may carry (part_001:631-636)
ComposedSpec == "composed"
\* the literal handleStartVisualPhase falls back to (App.tsx:166-171)
FallbackSpec == "fallback"
\* design specs regenerateDesignSpec may return
ProviderSpecs == {"specA"}
\* images generateSwipeScreenImage may return
ProviderImages == {"imgA"}
\* profiles analyzeProductContext may return
ProviderProfiles == {"profileA"}

\* a handler that is not running
Idle == [pc |-> "idle"]

Null == [isNull |-> TRUE, screens |-> <<>>]
LP(screens) == [isNull |-> FALSE, screens |-> screens]

NoError == [kind |-> "null", slide |-> 0]
AnalyzeError == [kind |-> "analyze", slide |-> 0]
ComposeError == [kind |-> "compose", slide |-> 0]
\* `スライド ${i + 1} の生成中にエラーが発生しましたが...` (App.tsx:195)
SlideError(i) == [kind |-> "slide", slide |-> i]

(***************************************************************************)
(* retryWithBackoff.                                                       *)
(*                                                                         *)
(* An error is the object the operation threw: its status, the markers its *)
(* message contains, and id, the attempt that threw it (two throws are two *)
(* objects).  `new Error("Max retries exceeded")` has id 0.                *)
(***************************************************************************)
ErrorShapes ==
  { [status |-> StatusRateLimit, message |-> {}],
    [status |-> 0, message |-> {"429"}],
    [status |-> 0, message |-> {"quota"}],
    [status |-> StatusOverload, message |-> {}],
    [status |-> 0, message |-> {"503"}],
    [status |-> 401, message |-> {}],
    [status |-> 0, message |-> {"API key not valid"}] }

Thrown(shape, attempt) ==
  [status |-> shape.status, message |-> shape.message, id |-> attempt]

MaxRetriesExceeded ==
  [status |-> 0, message |-> {"Max retries exceeded"}, id |-> 0]

OperationValues == {"valueA", "valueB"}

\* error.message?.includes(s)
MessageIncludes(e, s) == s \in e.message

IsRateLimit(e) ==
  MessageIncludes(e, "429") \/ e.status = StatusRateLimit
    \/ MessageIncludes(e, "quota")

IsServerOverload(e) ==
  MessageIncludes(e, "503") \/ e.status = StatusOverload

ShouldRetryOffByOne(e, i, retries) ==
  (IsRateLimit(e) \/ IsServerOverload(e)) /\ i < retries

ShouldRetryAnyError(e, i, retries) == i < retries - 1

\* (isRateLimit || isServerOverload) && i < retries - 1
ShouldRetry(e, i, retries) ==
  (IsRateLimit(e) \/ IsServerOverload(e)) /\ i < retries - 1

NextDelayAdded(currentDelay, factor) == currentDelay + factor

\* currentDelay *= factor
NextDelay(currentDelay, factor) == currentDelay * factor

RetryIdle ==
  [pc |-> "idle", retries |-> 0, initialDelay |-> 0, factor |-> 0, i |-> 0,
   currentDelay |-> 0, attempts |-> 0, opErrors |-> <<>>, sleeps |-> <<>>,
   result |-> Undefined, raised |-> MaxRetriesExceeded]

\* the for statement's test followed by `return await operation()`, or the
\* throw after the loop
RetryLoopHead(r) ==
  IF r.i < r.retries
    THEN [r EXCEPT !.pc = "attempt", !.attempts = @ + 1]
    ELSE [r EXCEPT !.pc = "raised", !.raised = MaxRetriesExceeded]

\* a caller enters retryWithBackoff(operation, retries, initialDelay, factor)
RetryCall(retries, initialDelay, factor) ==
  /\ retry.pc = "idle"
  /\ retry' = RetryLoopHead([RetryIdle EXCEPT !.retries = retries,
                               !.initialDelay = initialDelay,
                               !.factor = factor,
                               !.currentDelay = initialDelay])
  /\ UNCHANGED <<appVars, actVars, envVars, service, obsVars>>

\* the awaited operation() resolves with value v
RetryOperationResolves(v) ==
  /\ retry.pc = "attempt"
  /\ retry' = [retry EXCEPT !.pc = "returned", !.result = v]
  /\ UNCHANGED <<appVars, actVars, envVars, service, obsVars>>

\* the awaited operation() rejects: the catch block
RetryOperationRejects(shape) ==
  /\ retry.pc = "attempt"
  /\ LET e == Thrown(shape, retry.attempts)
         seen == [retry EXCEPT !.opErrors = Append(@, e)]
     IN retry' = IF ShouldRetry(e, retry.i, retry.retries)
                   THEN [seen EXCEPT !.pc = "sleep",
                                     !.sleeps = Append(@, retry.currentDelay)]
                   ELSE [seen EXCEPT !.pc = "raised", !.raised = e]
  /\ UNCHANGED <<appVars, actVars, envVars, service, obsVars>>

\* await delay(currentDelay) is over: currentDelay *= factor; i++; loop
RetryDelayElapsed ==
  /\ retry.pc = "sleep"
  /\ retry' = RetryLoopHead([retry EXCEPT
                               !.currentDelay = NextDelay(@, retry.factor),
                               !.i = @ + 1])
  /\ UNCHANGED <<appVars, actVars, envVars, service, obsVars>>

RetryNext ==
  \/ \E retries \in 1..MaxRetries :
       \E initialDelay \in {DefaultInitialDelay, 1} :
         \E factor \in {DefaultFactor, 3} :
           RetryCall(retries, initialDelay, factor)
  \/ \E v \in OperationValues : RetryOperationResolves(v)
  \/ \E shape \in ErrorShapes : RetryOperationRejects(shape)
  \/ RetryDelayElapsed

(***************************************************************************)
(* Screens and their history (src/types.ts:30-48).                         *)
(*                                                                         *)
(* history and redoHistory are optional in the source and every reader     *)
(* takes `x || []`, so an absent stack is written as the empty sequence.   *)
(***************************************************************************)
\* the title generateSwipeLP gives a screen: a text as sanitizeCopy reads it
ComposedTitle == <<"a">>

\* the screens generateSwipeLP returns: no image, no history
ComposedScreen(order, spec) ==
  [order |-> order, title |-> ComposedTitle, designSpec |-> spec,
   imageData |-> Undefined, history |-> <<>>, redoHistory |-> <<>>]

\* { designSpec: screen.designSpec, imageData: screen.imageData,
\*   timestamp: Date.now() }
HistoryEntry(screen, now) ==
  [designSpec |-> screen.designSpec, imageData |-> screen.imageData,
   timestamp |-> now]

\* an entry of the screens array that holds no screen (undefined): the
\* screens generateSwipeLP returns have an order of 1 or more
\* (s.order || idx + 1)
Missing ==
  [order |-> 0, title |-> <<>>, designSpec |-> Undefined,
   imageData |-> Undefined, history |-> <<>>, redoHistory |-> <<>>]

\* !currentScreens[i]
IsMissing(screen) == screen.order = 0

\* newScreens[index] = screen on a copy of screens: an index past the end
\* lengthens the array and leaves the entries in between without a screen
Assigned(screens, index, screen) ==
  [k \in 1..(IF index > Len(screens) THEN index ELSE Len(screens)) |->
     IF k = index THEN screen
     ELSE IF k <= Len(screens) THEN screens[k]
     ELSE Missing]

\* handleUpdateScreen's state update:
\* prev => prev ? { ...prev, screens: <prev.screens with [index] = screen> }
\*              : null
SetScreen(lp, index, screen) ==
  IF lp.isNull THEN Null
  ELSE LP(Assigned(lp.screens, index, screen))

UndoScreenForgetsCurrent(screen, now) ==
  LET n == Len(screen.history)
  IN [screen EXCEPT !.designSpec = screen.history[n].designSpec,
                    !.imageData = screen.history[n].imageData,
                    !.history = SubSeq(screen.history, 1, n - 1)]

UndoScreenKeepsImage(screen, now) ==
  LET n == Len(screen.history)
  IN [screen EXCEPT !.designSpec = screen.history[n].designSpec,
                    !.history = SubSeq(screen.history, 1, n - 1),
                    !.redoHistory = Append(@, HistoryEntry(screen, now))]

\* handleUndoVisual: the restoredScreen of a screen whose history is not empty
UndoScreen(screen, now) ==
  LET n == Len(screen.history)
      lastState == screen.history[n]
      newHistory == SubSeq(screen.history, 1, n - 1)
      currentEntry == HistoryEntry(screen, now)
  IN [screen EXCEPT !.designSpec = lastState.designSpec,
                    !.imageData = lastState.imageData,
                    !.history = newHistory,
                    !.redoHistory = Append(screen.redoHistory, currentEntry)]

RedoScreenTakesOldest(screen, now) ==
  LET n == Len(screen.redoHistory)
  IN [screen EXCEPT !.designSpec = screen.redoHistory[1].designSpec,
                    !.imageData = screen.redoHistory[1].imageData,
                    !.history = Append(@, HistoryEntry(screen, now)),
                    !.redoHistory = SubSeq(screen.redoHistory, 2, n)]

\* handleRedoVisual: the restoredScreen of a screen whose redoHistory is not
\* empty
RedoScreen(screen, now) ==
  LET n == Len(screen.redoHistory)
      nextState == screen.redoHistory[n]
      newRedoHistory == SubSeq(screen.redoHistory, 1, n - 1)
      currentEntry == HistoryEntry(screen, now)
  IN [screen EXCEPT !.designSpec = nextState.designSpec,
                    !.imageData = nextState.imageData,
                    !.history = Append(screen.history, currentEntry),
                    !.redoHistory = newRedoHistory]

RegeneratedScreenPushesNew(screen, historyEntry, newSpec) ==
  [screen EXCEPT !.designSpec = newSpec,
                 !.history = Append(screen.history,
                               [historyEntry EXCEPT !.designSpec = newSpec]),
                 !.redoHistory = <<>>,
                 !.imageData = Undefined]

RegeneratedScreenKeepsRedo(screen, historyEntry, newSpec) ==
  [screen EXCEPT !.designSpec = newSpec,
                 !.history = Append(screen.history, historyEntry),
                 !.imageData = Undefined]

\* handleRegenerateVisual: updatedScreen after the design step
\* { ...screen, designSpec: newSpec, history: [...currentHistory,
\*   historyEntry], redoHistory: [] }, then imageData = undefined
RegeneratedScreen(screen, historyEntry, newSpec) ==
  [screen EXCEPT !.designSpec = newSpec,
                 !.history = Append(screen.history, historyEntry),
                 !.redoHistory = <<>>,
                 !.imageData = Undefined]

(***************************************************************************)
(* Observation.                                                            *)
(***************************************************************************)
\* start: <<the screen the operation started from>>, or <<>>
Op(name, index, start) == [op |-> name, index |-> index, start |-> start]
Other == Op("other", 0, <<>>)
Started(i) == [ev |-> "start", slide |-> i, ok |-> TRUE]
Ended(i, ok) == [ev |-> "end", slide |-> i, ok |-> ok]
\* the catch block of slide i ran without a Provider call having been made
Caught(i) == [ev |-> "caught", slide |-> i, ok |-> FALSE]

Slides == 1..NumSlides

(***************************************************************************)
(* Files.                                                                 *)
(***************************************************************************)
\* setFiles(prev => [...prev, ...newFiles])
handleFilesAdded ==
  /\ files < MaxFiles
  /\ files' = files + 1
  /\ lastOp' = Other
  /\ UNCHANGED <<hasApiKey, appState, productProfile, swipeLP, error,
                 visualProgressIndex, actVars, envVars, retry, service, callLog,
                 runStart>>

\* setFiles(prev => prev.filter(f => f.id !== id))
handleFileRemoved ==
  /\ files > 0
  /\ files' = files - 1
  /\ lastOp' = Other
  /\ UNCHANGED <<hasApiKey, appState, productProfile, swipeLP, error,
                 visualProgressIndex, actVars, envVars, retry, service, callLog,
                 runStart>>

\* handleSaveApiKey, handleSelectKey: a key is entered again
handleSaveApiKey ==
  /\ ~hasApiKey
  /\ hasApiKey' = TRUE
  /\ lastOp' = Other
  /\ UNCHANGED <<files, appState, productProfile, swipeLP, error,
                 visualProgressIndex, actVars, envVars, retry, service, callLog,
                 runStart>>

(***************************************************************************)
(* handleAnalyze (App.tsx:90-107).                                         *)
(***************************************************************************)
\* the activations of handleAnalyze that await analyzeProductContext
InFlight(a) == IF a.pc = "idle" THEN 0 ELSE a.calls

Awaiting(n) == IF n = 0 THEN Idle ELSE [pc |-> "call", calls |-> n]

\* the click: up to `await analyzeProductContext(...)`; the handler itself
\* does not look at appState
handleAnalyze ==
  /\ InFlight(analyze) < MaxInFlight
  /\ files # 0
  /\ appState' = "ANALYZING"
  /\ error' = NoError
  /\ productProfile' = Undefined
  /\ analyze' = Awaiting(InFlight(analyze) + 1)
  /\ lastOp' = Other
  /\ UNCHANGED <<hasApiKey, files, swipeLP, visualProgressIndex, compose,
                 vis, regen, regenScreen, envVars, retry, service, callLog, runStart>>

\* analyzeProductContext resolved with result.profile
AnalyzeResolves(profile) ==
  /\ analyze.pc = "call"
  /\ productProfile' = profile
  /\ appState' = "ANALYSIS_COMPLETE"
  /\ analyze' = Awaiting(InFlight(analyze) - 1)
  /\ lastOp' = Other
  /\ UNCHANGED <<hasApiKey, files, swipeLP, error, visualProgressIndex,
                 compose, vis, regen, regenScreen, envVars, retry, service, callLog, runStart>>

\* analyzeProductContext rejected: the catch block
AnalyzeRejects ==
  /\ analyze.pc = "call"
  /\ error' = AnalyzeError
  /\ appState' = "IDLE"
  /\ analyze' = Awaiting(InFlight(analyze) - 1)
  /\ lastOp' = Op("analysisFailed", 0, <<>>)
  /\ UNCHANGED <<hasApiKey, files, productProfile, swipeLP,
                 visualProgressIndex, compose, vis, regen, regenScreen, envVars, retry, service,
                 callLog, runStart>>

(***************************************************************************)
(* handleGenerateLP (App.tsx:109-127).                                     *)
(***************************************************************************)
\* an activation of handleStartVisualPhase whose screen objects are no longer
\* the ones the state holds at `index` (at every index for index = 0)
Unaliased(v, index) ==
  IF v.pc = "idle" THEN v
  ELSE [v EXCEPT !.aliased =
          [j \in DOMAIN v.aliased |->
             IF index = 0 \/ j = index THEN FALSE ELSE v.aliased[j]]]

\* the click: up to `await generateSwipeLP(productProfile, ...)`
handleGenerateLP ==
  /\ compose.pc = "idle"
  /\ productProfile # Undefined
  /\ appState' = "GENERATING_LP"
  /\ error' = NoError
  /\ visualProgressIndex' = -1
  /\ compose' = [pc |-> "call", profile |-> productProfile]
  /\ lastOp' = Other
  /\ UNCHANGED <<hasApiKey, files, productProfile, swipeLP, analyze, vis,
                 regen, regenScreen, envVars, retry, service, callLog, runStart>>

\* generateSwipeLP resolved with screens
ComposeResolvesWith(screens) ==
  /\ compose.pc = "call"
  /\ swipeLP' = LP(screens)
  /\ appState' = "LP_CREATED"
  /\ compose' = Idle
  /\ vis' = Unaliased(vis, 0)
  /\ lastOp' = Other
  /\ UNCHANGED <<hasApiKey, files, productProfile, error,
                 visualProgressIndex, analyze, regen, regenScreen, envVars, retry, service,
                 callLog, runStart>>

\* every screen with a design spec (part_001:624-637) or every screen
\* without (geminiService.ts:375-382)
ComposeResolves(spec) ==
  ComposeResolvesWith([i \in Slides |-> ComposedScreen(i, spec)])

\* generateSwipeLP rejected: the catch block
ComposeRejects ==
  /\ compose.pc = "call"
  /\ error' = ComposeError
  /\ appState' = "ANALYSIS_COMPLETE"
  /\ compose' = Idle
  /\ lastOp' = Op("scenarioFailed", 0, <<>>)
  /\ UNCHANGED <<hasApiKey, files, productProfile, swipeLP,
                 visualProgressIndex, analyze, vis, regen, regenScreen, envVars, retry, service,
                 callLog, runStart>>

(***************************************************************************)
(* handleStartVisualPhase (App.tsx:129-204).                               *)
(*                                                                         *)
(* vis.currentScreens is the handler's local array; vis.aliased[i] says    *)
(* that currentScreens[i] is still the very object the state holds at i,   *)
(* so that the assignment to its designSpec (line 166) shows in the state. *)
(* isMangaMode is read at lines 167 and 178 and declared nowhere in        *)
(* App.tsx: where the environment does not bind it the read throws a       *)
(* ReferenceError inside the try, before any Provider call.                *)
(***************************************************************************)
NeedsImageAlways(screen) == TRUE

\* if (!currentScreens[i].imageData)
NeedsImage(screen) == screen.imageData = Undefined

SameIndex(i) == i

\* i++
NextIndex(i) == i + 1

Running(pc, i, cs, al) ==
  [pc |-> pc, i |-> i, currentScreens |-> cs, aliased |-> al]

\* if (!currentScreens[i]) continue: the first index from i on that holds a
\* screen, or the first past the end
RECURSIVE SkipMissing(_, _)
SkipMissing(cs, i) ==
  IF i > Len(cs) \/ ~IsMissing(cs[i]) THEN i
  ELSE SkipMissing(cs, NextIndex(i))

\* from the for statement's test for slide i0 to the next await, or to the
\* end of the handler; lp, err and app are the state as set so far, log and
\* cs0 the observation of the run
VisLoopHead(i0, cs, al, lp, err, app, log, cs0) ==
  LET i == SkipMissing(cs, i0) IN
  IF i > Len(cs)
  THEN /\ visualProgressIndex' = -1
       /\ appState' = "VISUALS_COMPLETE"
       /\ vis' = Idle
       /\ swipeLP' = lp
       /\ error' = err
       /\ callLog' = <<>>
       /\ runStart' = <<>>
       /\ lastOp' = Op("visualsFinished", 0, <<>>)
  ELSE /\ visualProgressIndex' = i - 1
       /\ appState' = app
       /\ runStart' = cs0
       /\ lastOp' = Other
       /\ IF ~NeedsImage(cs[i])
          THEN \* nothing to do: on to the delay
               /\ vis' = Running("delay", i, cs, al)
               /\ swipeLP' = lp
               /\ error' = err
               /\ callLog' = log
          ELSE IF ~isMangaModeBound
          THEN \* ReferenceError, caught at line 192
               /\ vis' = Running("delay", i, cs, al)
               /\ swipeLP' = lp
               /\ error' = SlideError(i)
               /\ callLog' = Append(log, Caught(i))
          ELSE \* the fallback design spec, then generateSwipeScreenImage
               LET missing == cs[i].designSpec = Undefined
                   cs2 == IF missing
                          THEN [cs EXCEPT ![i].designSpec = FallbackSpec]
                          ELSE cs
                   lp2 == IF missing /\ al[i] /\ ~lp.isNull
                          THEN LP([lp.screens EXCEPT
                                     ![i].designSpec = FallbackSpec])
                          ELSE lp
               IN /\ vis' = Running("render", i, cs2, al)
                  /\ swipeLP' = lp2
                  /\ error' = err
                  /\ callLog' = Append(log, Started(i))

\* the click: the key check, the guard on swipeLP, then the loop
handleStartVisualPhase(aistudio) ==
  /\ vis.pc = "idle"
  /\ LET isKeyValid == IF aistudio = "absent" THEN hasApiKey
                       ELSE aistudio = "valid"
     IN /\ hasApiKey' = isKeyValid
        /\ IF ~isKeyValid \/ swipeLP.isNull
           THEN /\ lastOp' = Other
                /\ UNCHANGED <<appState, swipeLP, error,
                               visualProgressIndex, vis, callLog, runStart>>
           ELSE VisLoopHead(1, swipeLP.screens,
                            [j \in DOMAIN swipeLP.screens |-> TRUE],
                            swipeLP, NoError, "GENERATING_VISUALS", <<>>,
                            swipeLP.screens)
  /\ UNCHANGED <<files, productProfile, analyze, compose, regen, regenScreen, envVars,
                 retry, service>>

\* generateSwipeScreenImage resolved with base64Image
VisRenderResolves(base64Image) ==
  /\ vis.pc = "render"
  /\ LET i == vis.i
         cs == [vis.currentScreens EXCEPT ![i].imageData = base64Image]
     IN /\ swipeLP' = SetScreen(swipeLP, i, cs[i])
        /\ vis' = Running("delay", i, cs,
                          [vis.aliased EXCEPT ![i] = ~swipeLP.isNull])
        /\ callLog' = Append(callLog, Ended(i, TRUE))
  /\ lastOp' = Other
  /\ UNCHANGED <<hasApiKey, files, appState, productProfile, error,
                 visualProgressIndex, analyze, compose, regen, regenScreen, envVars,
                 retry, service, runStart>>

\* generateSwipeScreenImage rejected: the catch block of the loop body
VisRenderRejects ==
  /\ vis.pc = "render"
  /\ error' = SlideError(vis.i)
  /\ vis' = [vis EXCEPT !.pc = "delay"]
  /\ callLog' = Append(callLog, Ended(vis.i, FALSE))
  /\ lastOp' = Other
  /\ UNCHANGED <<hasApiKey, files, appState, productProfile, swipeLP,
                 visualProgressIndex, analyze, compose, regen, regenScreen, envVars,
                 retry, service, runStart>>

\* the inter-slide delay is over: i++, and the loop again
VisDelayElapsed ==
  /\ vis.pc = "delay"
  /\ VisLoopHead(NextIndex(vis.i), vis.currentScreens, vis.aliased, swipeLP,
                 error, appState, callLog, runStart)
  /\ UNCHANGED <<hasApiKey, files, productProfile, analyze, compose, regen, regenScreen,
                 envVars, retry, service>>

(***************************************************************************)
(* handleUpdateScreen (App.tsx:206-214).                                   *)
(***************************************************************************)
\* the state after handleUpdateScreen(index, updatedScreen); the handler
\* returns at once while its swipeLP is null
handleUpdateScreen(lp, index, updatedScreen) ==
  IF lp.isNull THEN lp ELSE SetScreen(lp, index, updatedScreen)

(***************************************************************************)
(* handleRegenerateVisual (App.tsx:236-275).                               *)
(*                                                                         *)
(* regen.screen is the screen object read at the call, regen.historyEntry  *)
(* the entry built from it.  isMangaMode is read at line 265, after the    *)
(* design step has been written to the state.                              *)
(***************************************************************************)
\* the call: up to `await regenerateDesignSpec(screen, ...)`; now is what
\* Date.now() returns
handleRegenerateVisual(index, now) ==
  /\ regen.pc = "idle"
  /\ ~swipeLP.isNull
  /\ regen' = [pc |-> "design", index |-> index,
               screen |-> swipeLP.screens[index],
               historyEntry |-> HistoryEntry(swipeLP.screens[index], now)]
  /\ clock' = now
  /\ lastOp' = Other
  /\ UNCHANGED <<appVars, analyze, compose, vis, regenScreen,
                 isMangaModeBound, retry, service, callLog, runStart>>

\* regenerateDesignSpec resolved with newSpec
RegenDesignResolves(newSpec) ==
  /\ regen.pc = "design"
  /\ LET updatedScreen ==
           RegeneratedScreen(regen.screen, regen.historyEntry, newSpec)
     IN /\ swipeLP' = handleUpdateScreen(swipeLP, regen.index, updatedScreen)
        /\ IF isMangaModeBound
           THEN /\ regen' = [pc |-> "image", index |-> regen.index,
                             screen |-> regen.screen,
                             updatedScreen |-> updatedScreen]
                /\ lastOp' = Other
           ELSE \* ReferenceError, caught and thrown again at line 273
                /\ regen' = Idle
                /\ lastOp' = Op("regenerateFailed", regen.index,
                                <<regen.screen>>)
  /\ vis' = Unaliased(vis, regen.index)
  /\ UNCHANGED <<hasApiKey, files, appState, productProfile, error,
                 visualProgressIndex, analyze, compose, regenScreen, envVars,
                 retry, service, callLog, runStart>>

\* regenerateDesignSpec rejected: thrown on to the caller
RegenDesignRejects ==
  /\ regen.pc = "design"
  /\ regen' = Idle
  /\ lastOp' = Op("regenerateFailed", regen.index, <<regen.screen>>)
  /\ UNCHANGED <<appVars, analyze, compose, vis, regenScreen, envVars,
                 retry, service, callLog, runStart>>

\* generateSwipeScreenImage resolved with base64Image
RegenImageResolves(base64Image) ==
  /\ regen.pc = "image"
  /\ swipeLP' = handleUpdateScreen(swipeLP, regen.index,
                  [regen.updatedScreen EXCEPT !.imageData = base64Image])
  /\ regen' = Idle
  /\ vis' = Unaliased(vis, regen.index)
  /\ lastOp' = Op("regenerated", regen.index, <<regen.screen>>)
  /\ UNCHANGED <<hasApiKey, files, appState, productProfile, error,
                 visualProgressIndex, analyze, compose, regenScreen, envVars,
                 retry, service, callLog, runStart>>

\* generateSwipeScreenImage rejected: thrown on to the caller
RegenImageRejects ==
  /\ regen.pc = "image"
  /\ regen' = Idle
  /\ lastOp' = Op("regenerateFailed", regen.index, <<regen.screen>>)
  /\ UNCHANGED <<appVars, analyze, compose, vis, regenScreen, envVars,
                 retry, service, callLog, runStart>>

(***************************************************************************)
(* handleUndoVisual (App.tsx:277-304), handleRedoVisual (App.tsx:306-333). *)
(***************************************************************************)
\* now is what Date.now() returns where the handler reads it
handleUndoVisual(index, now) ==
  /\ IF swipeLP.isNull \/ Len(swipeLP.screens[index].history) = 0
     THEN /\ lastOp' = Op("undo", index, <<>>)
          /\ UNCHANGED <<swipeLP, vis, clock>>
     ELSE /\ swipeLP' = handleUpdateScreen(swipeLP, index,
                          UndoScreen(swipeLP.screens[index], now))
          /\ vis' = Unaliased(vis, index)
          /\ clock' = now
          /\ lastOp' = Op("undo", index, <<swipeLP.screens[index]>>)
  /\ UNCHANGED <<hasApiKey, files, appState, productProfile, error,
                 visualProgressIndex, analyze, compose, regen, regenScreen,
                 isMangaModeBound, retry, service, callLog, runStart>>

\* lastOp.start of a redo: the screen before the undo it directly follows
handleRedoVisual(index, now) ==
  /\ IF swipeLP.isNull \/ Len(swipeLP.screens[index].redoHistory) = 0
     THEN UNCHANGED <<swipeLP, vis, clock>>
     ELSE /\ swipeLP' = handleUpdateScreen(swipeLP, index,
                          RedoScreen(swipeLP.screens[index], now))
          /\ vis' = Unaliased(vis, index)
          /\ clock' = now
  /\ lastOp' = Op("redo", index,
                  IF lastOp.op = "undo" /\ lastOp.index = index
                  THEN lastOp.start ELSE <<>>)
  /\ UNCHANGED <<hasApiKey, files, appState, productProfile, error,
                 visualProgressIndex, analyze, compose, regen, regenScreen,
                 isMangaModeBound, retry, service, callLog, runStart>>

(***************************************************************************)
(* The functions of geminiService that work on the Provider's response.    *)
(*                                                                         *)
(* A text is the sequence of its pieces: single characters, and pieces of  *)
(* several characters where only their kind matters.                       *)
(***************************************************************************)
\* no function of the service has been applied yet
NotApplied == [fn |-> "none"]

\* the outcome of an application: the value returned, or the error thrown;
\* input and result are records that name what they hold
Returned(fn, input, result) ==
  [fn |-> fn, input |-> input, raised |-> "none", result |-> result]
Raised(fn, input, what) ==
  [fn |-> fn, input |-> input, raised |-> what, result |-> [error |-> what]]

Range(seq) == {seq[k] : k \in 1..Len(seq)}

\* the texts of at most n pieces of the alphabet
TextsOver(alphabet, n) ==
  UNION {[1..k -> alphabet] : k \in 0..n}

(***************************************************************************)
(* sanitizeCopy (geminiService.ts:753-763).                                *)
(***************************************************************************)
\* "。", "、", a line break, and an ordinary character
Kuten == "kuten"
Touten == "touten"
LineBreak == "\n"
CopyChars == {Kuten, Touten, LineBreak, "a"}

\* text.replace(/<ch>(?=$|\n)/g, ''): every ch that the end of the text or
\* a line break follows is removed; the lookahead reads the text as it was
RECURSIVE StripFrom(_, _, _)
StripFrom(text, ch, k) ==
  IF k > Len(text) THEN <<>>
  ELSE (IF text[k] = ch /\ (k = Len(text) \/ text[k + 1] = LineBreak)
        THEN <<>> ELSE <<text[k]>>)
       \o StripFrom(text, ch, k + 1)

StripTrailing(text, ch) == StripFrom(text, ch, 1)

\* sanitizeCopy(text): `if (!text) return text`, then "。", then "、"
sanitizeCopy(text) ==
  IF text = <<>> THEN text
  ELSE StripTrailing(StripTrailing(text, Kuten), Touten)

\* an application of sanitizeCopy
ApplySanitizeCopy(text) ==
  /\ service' = Returned("sanitizeCopy", [text |-> text],
                         [text |-> sanitizeCopy(text)])
  /\ lastOp' = Other
  /\ UNCHANGED <<appVars, actVars, envVars, retry, callLog, runStart>>

(***************************************************************************)
(* parseJsonResponse (geminiService.ts:722-746).                           *)
(*                                                                         *)
(* Positions are counted from 0 as indexOf and substring count them.  The  *)
(* texts considered hold no "json" piece, so the first pattern of line 726 *)
(* (which needs a fence followed by json and a line break) matches none   *)
(* of them; its capture has the same form as the second pattern's.         *)
(***************************************************************************)
\* three backquotes
Fence == "fence"
Space == " "
\* the text of one or more "name": value members of an object
Members == "members"
\* the pieces that are one character: the object boundaries, a letter, a
\* blank and a digit
SingleChars == {"{", "}", "a", Space, "7"}
ResponsePieces == SingleChars \cup {Members, Fence}

Min(a, b) == IF a < b THEN a ELSE b
Max(a, b) == IF a < b THEN b ELSE a

\* String.prototype.trim
RECURSIVE trim(_)
trim(str) ==
  IF str = <<>> THEN str
  ELSE IF Head(str) = Space THEN trim(Tail(str))
  ELSE IF str[Len(str)] = Space THEN trim(SubSeq(str, 1, Len(str) - 1))
  ELSE str

\* str.indexOf(ch), str.lastIndexOf(ch): -1 when ch is not in str
indexOf(str, ch) ==
  LET at == {k \in 1..Len(str) : str[k] = ch}
  IN IF at = {} THEN -1
     ELSE (CHOOSE k \in at : \A j \in at : k <= j) - 1

lastIndexOf(str, ch) ==
  LET at == {k \in 1..Len(str) : str[k] = ch}
  IN IF at = {} THEN -1
     ELSE (CHOOSE k \in at : \A j \in at : j <= k) - 1

\* str.substring(start, end): the arguments are swapped when start > end
substring(str, start, end) ==
  LET lo == Min(Min(start, end), Len(str))
      hi == Min(Max(start, end), Len(str))
  IN SubSeq(str, lo + 1, hi)

\* text.match of the second pattern of line 726: the places where a fence, one character,
\* blanks and a fence follow each other, as <<start of the capture, its end>>
FenceMatches(text) ==
  {<<k + 1, j - 1>> : k \in 1..Len(text), j \in 1..Len(text)} \cap
  {m \in (1..(Len(text) + 1)) \X (0..Len(text)) :
     /\ m[1] <= m[2]
     /\ m[1] > 1
     /\ m[2] < Len(text)
     /\ text[m[1] - 1] = Fence
     /\ text[m[1]] \in SingleChars
     /\ \A i \in (m[1] + 1)..m[2] : text[i] = Space
     /\ text[m[2] + 1] = Fence}

\* jsonMatch[1] of the leftmost match, or the text itself ([null, text])
jsonMatch1(text) ==
  LET ms == FenceMatches(text)
  IN IF ms = {} THEN text
     ELSE LET m == CHOOSE x \in ms : \A y \in ms : x[1] <= y[1]
          IN SubSeq(text, m[1], m[2])

\* the pieces of str that are not blanks
Unspaced(str) == SelectSeq(str, LAMBDA c : c # Space)

\* whether the pieces spell one object: {} or { members }
SpellsObject(str) ==
  Unspaced(str) \in {<<"{", "}">>, <<"{", Members, "}">>}

\* JSON.parse(str): an object, a number, or a SyntaxError
JSONparse(str) ==
  IF SpellsObject(str)
  THEN [type |-> "object", members |-> Members \in Range(str)]
  ELSE IF /\ trim(str) # <<>>
          /\ \A k \in 1..Len(trim(str)) : trim(str)[k] = "7"
  THEN [type |-> "number", members |-> FALSE]
  ELSE [type |-> "SyntaxError", members |-> FALSE]

\* the outcome of parseJsonResponse(text)
parseJsonResponse(text) ==
  IF text = <<>>
  THEN Raised("parseJsonResponse", [text |-> text], "empty")
  ELSE
    LET jsonStr == trim(jsonMatch1(text))
        startIndex == indexOf(jsonStr, "{")
        endIndex == lastIndexOf(jsonStr, "}")
        cleanJson == substring(jsonStr, startIndex, endIndex + 1)
        parsed == JSONparse(cleanJson)
    IN IF startIndex = -1 \/ endIndex = -1
       THEN Raised("parseJsonResponse", [text |-> text], "noJson")
       ELSE IF parsed.type = "SyntaxError"
       THEN Raised("parseJsonResponse", [text |-> text], "SyntaxError")
       ELSE IF parsed.type # "object"
       THEN Raised("parseJsonResponse", [text |-> text], "notObject")
       ELSE Returned("parseJsonResponse", [text |-> text],
                     [object |-> parsed])

\* an application of parseJsonResponse
ApplyParseJsonResponse(text) ==
  /\ service' = parseJsonResponse(text)
  /\ lastOp' = Other
  /\ UNCHANGED <<appVars, actVars, envVars, retry, callLog, runStart>>

(***************************************************************************)
(* analyzeProductContext from the response on (geminiService.ts:259-280).  *)
(*                                                                         *)
(* A JSON value is its type and its items: the characters of a string, the *)
(* elements of an array.  spelled is the object that the Members piece of  *)
(* the response text spells.                                               *)
(***************************************************************************)
JUndefined == [type |-> "undefined", items |-> <<>>]
JString(items) == [type |-> "string", items |-> items]
JArray(items) == [type |-> "array", items |-> items]

\* !value
Falsy(value) ==
  \/ value.type \in {"undefined", "null"}
  \/ value.type = "string" /\ value.items = <<>>

isArray(value) == value.type = "array"

\* what a field of the response may hold: nothing, "", a string, an array
FieldValues == {JUndefined, JString(<<>>), JString(<<"s">>), JArray(<<"x">>)}

ParsedProfiles ==
  [productName : FieldValues, category : FieldValues,
   targetAudience : FieldValues, painPoints : FieldValues,
   solutions : FieldValues, uniqueValueProposition : FieldValues,
   toneOfVoice : FieldValues]

\* {}
NoProfileFields ==
  [productName |-> JUndefined, category |-> JUndefined,
   targetAudience |-> JUndefined, painPoints |-> JUndefined,
   solutions |-> JUndefined, uniqueValueProposition |-> JUndefined,
   toneOfVoice |-> JUndefined]

\* the object parseJsonResponse returned: the one spelled, or {}
ParsedObject(parsed, spelled, empty) ==
  IF parsed.members THEN spelled ELSE empty

\* the string a field is set to when the response gave none
Placeholder(field) == JString(<<"placeholder", field>>)

\* lines 262-274
SanitizedProfile(parsed) ==
  LET painPoints ==
        IF Falsy(parsed.painPoints) \/ ~isArray(parsed.painPoints)
        THEN JArray(<<>>) ELSE parsed.painPoints
      solutions ==
        IF Falsy(parsed.solutions) \/ ~isArray(parsed.solutions)
        THEN JArray(<<>>) ELSE parsed.solutions
      toneOfVoice ==
        IF Falsy(parsed.toneOfVoice) \/ parsed.toneOfVoice.type # "string"
        THEN Placeholder("toneOfVoice") ELSE parsed.toneOfVoice
      productName ==
        IF Falsy(parsed.productName)
        THEN Placeholder("productName") ELSE parsed.productName
      category ==
        IF Falsy(parsed.category)
        THEN Placeholder("category") ELSE parsed.category
      targetAudience ==
        IF Falsy(parsed.targetAudience)
        THEN Placeholder("targetAudience") ELSE parsed.targetAudience
      uniqueValueProposition ==
        IF Falsy(parsed.uniqueValueProposition)
        THEN Placeholder("uniqueValueProposition")
        ELSE parsed.uniqueValueProposition
  IN [productName |-> productName, category |-> category,
      targetAudience |-> targetAudience, painPoints |-> painPoints,
      solutions |-> solutions,
      uniqueValueProposition |-> uniqueValueProposition,
      toneOfVoice |-> toneOfVoice]

\* the Provider answered text: parseJsonResponse, the sanitization, the
\* return; an error of parseJsonResponse is thrown on (line 282-284)
analyzeProductContext(text, spelled) ==
  /\ LET response == parseJsonResponse(text)
     IN service' =
          IF response.raised # "none"
          THEN Raised("analyzeProductContext", [text |-> text],
                      response.raised)
          ELSE LET parsed == ParsedObject(response.result.object, spelled,
                                          NoProfileFields)
               IN Returned("analyzeProductContext",
                           [text |-> text, parsed |-> parsed],
                           [profile |-> SanitizedProfile(parsed)])
  /\ lastOp' = Other
  /\ UNCHANGED <<appVars, actVars, envVars, retry, callLog, runStart>>

(***************************************************************************)
(* generateSwipeLP from the response on (geminiService.ts:362-385).        *)
(*                                                                         *)
(* An entry of the screens array is null or an object; of its fields the   *)
(* order (0: none), the title ("": none) and the presence of a designSpec  *)
(* are kept.                                                               *)
(***************************************************************************)
Entries ==
  [isNull : {FALSE}, order : {0, 5}, title : {"", "t"},
   designSpec : BOOLEAN]
  \cup {[isNull |-> TRUE, order |-> 0, title |-> "", designSpec |-> FALSE]}

\* what the screens or slides field may hold: nothing, a string, an array
ScreensValues ==
  {JUndefined, JString(<<>>)}
  \cup {JArray(items) : items \in TextsOver(Entries, MaxScreens)}

ParsedLPs == [screens : ScreensValues,
              slides : {JUndefined, JArray(<<>>)}
                       \cup {JArray(<<e>>) : e \in Entries}]

\* {}
NoLPFields == [screens |-> JUndefined, slides |-> JUndefined]

\* lines 365-372: parsed.screens after the first block
ScreensOf(parsed) ==
  IF Falsy(parsed.screens) \/ ~isArray(parsed.screens)
  THEN IF ~Falsy(parsed.slides) /\ isArray(parsed.slides)
       THEN parsed.slides.items
       ELSE <<>>
  ELSE parsed.screens.items

\* lines 375-382: the object the map callback returns for entry s at idx
\* (from 0); it has no designSpec
MappedScreen(s, idx) ==
  [order |-> IF s.order # 0 THEN s.order ELSE idx + 1,
   title |-> IF s.title # "" THEN s.title ELSE "untitled",
   designSpec |-> FALSE]

\* the Provider answered text: parseJsonResponse, the sanitization, the
\* return; reading s.order of a null entry throws a TypeError
generateSwipeLP(text, spelled) ==
  /\ LET response == parseJsonResponse(text)
     IN service' =
          IF response.raised # "none"
          THEN Raised("generateSwipeLP", [text |-> text], response.raised)
          ELSE
            LET parsed == ParsedObject(response.result.object, spelled,
                                       NoLPFields)
                screens == ScreensOf(parsed)
            IN IF \E k \in 1..Len(screens) : screens[k].isNull
               THEN Raised("generateSwipeLP",
                           [text |-> text, parsed |-> parsed], "TypeError")
               ELSE Returned("generateSwipeLP",
                             [text |-> text, parsed |-> parsed],
                             [screens |->
                                [k \in 1..Len(screens) |->
                                   MappedScreen(screens[k], k - 1)]])
  /\ lastOp' = Other
  /\ UNCHANGED <<appVars, actVars, envVars, retry, callLog, runStart>>

(***************************************************************************)
(* ScreenEditor (AnalysisResult.tsx:875-895): the edits of the slide       *)
(* shown, passed through onUpdate to handleUpdateScreen (App.tsx:206-214). *)
(* screen is the prop of the last render, the screen the state holds.      *)
(***************************************************************************)
\* what the user types into a text field, and the design spec that comes
\* of typing into one of its fields
TypedTexts == {<<"a", "a">>}
TypedSpec == "typed"

\* handleTextChange('title', value): onUpdate({ ...screen, [field]: value })
handleTextChange(index, value) ==
  /\ swipeLP' = handleUpdateScreen(swipeLP, index,
                  [swipeLP.screens[index] EXCEPT !.title = value])
  /\ vis' = Unaliased(vis, index)
  /\ lastOp' = Op("updateSlide", index, <<swipeLP.screens[index]>>)
  /\ UNCHANGED <<hasApiKey, files, appState, productProfile, error,
                 visualProgressIndex, analyze, compose, regen, regenScreen,
                 envVars, retry, service, callLog, runStart>>

\* handleSpecChange(field, value): if (!screen.designSpec) return; then
\* onUpdate({ ...screen, designSpec: { ...screen.designSpec, [field]: value } })
handleSpecChange(index) ==
  /\ IF swipeLP.screens[index].designSpec = Undefined
     THEN UNCHANGED <<swipeLP, vis>>
     ELSE /\ swipeLP' = handleUpdateScreen(swipeLP, index,
                          [swipeLP.screens[index] EXCEPT
                             !.designSpec = TypedSpec])
          /\ vis' = Unaliased(vis, index)
  /\ lastOp' = Op("updateSlide", index, <<swipeLP.screens[index]>>)
  /\ UNCHANGED <<hasApiKey, files, appState, productProfile, error,
                 visualProgressIndex, analyze, compose, regen, regenScreen,
                 envVars, retry, service, callLog, runStart>>

(***************************************************************************)
(* handleRegenerateScreen (App.tsx:216-233) with regenerateSwipeScreen     *)
(* (geminiService.ts:462-520).                                             *)
(***************************************************************************)
\* parsed.title of the responses considered; parsed carries the fields of
\* SWIPE_SCREEN_SCHEMA, and so neither history nor redoHistory
ParsedTitles == {<<"a", Kuten>>}

\* the call: up to `await regenerateSwipeScreen(productProfile,
\* originalScreen, ...)`; the handler returns at once without a SwipeLP or
\* a profile
handleRegenerateScreen(index) ==
  /\ regenScreen.pc = "idle"
  /\ ~swipeLP.isNull
  /\ productProfile # Undefined
  /\ regenScreen' = [pc |-> "call", index |-> index,
                     originalScreen |-> swipeLP.screens[index]]
  /\ lastOp' = Other
  /\ UNCHANGED <<appVars, analyze, compose, vis, regen, envVars, retry,
                 service, callLog, runStart>>

\* { ...parsed, title: sanitizeCopy(parsed.title), ... } of
\* regenerateSwipeScreen, then order, designSpec, imageData and history
\* assigned from originalScreen
NewScreen(parsedTitle, originalScreen) ==
  [order |-> originalScreen.order,
   title |-> sanitizeCopy(parsedTitle),
   designSpec |-> originalScreen.designSpec,
   imageData |-> originalScreen.imageData,
   history |-> originalScreen.history,
   redoHistory |-> <<>>]

\* regenerateSwipeScreen resolved
RegenScreenResolves(parsedTitle) ==
  /\ regenScreen.pc = "call"
  /\ swipeLP' = handleUpdateScreen(swipeLP, regenScreen.index,
                  NewScreen(parsedTitle, regenScreen.originalScreen))
  /\ regenScreen' = Idle
  /\ vis' = Unaliased(vis, regenScreen.index)
  /\ lastOp' = Op("regeneratedCopy", regenScreen.index,
                  <<regenScreen.originalScreen>>)
  /\ UNCHANGED <<hasApiKey, files, appState, productProfile, error,
                 visualProgressIndex, analyze, compose, regen, envVars,
                 retry, service, callLog, runStart>>

\* regenerateSwipeScreen rejected: thrown on to the caller
RegenScreenRejects ==
  /\ regenScreen.pc = "call"
  /\ regenScreen' = Idle
  /\ lastOp' = Op("regenerateCopyFailed", regenScreen.index,
                  <<regenScreen.originalScreen>>)
  /\ UNCHANGED <<appVars, analyze, compose, vis, regen, envVars, retry,
                 service, callLog, runStart>>

(***************************************************************************)
(* The orchestrator.                                                       *)
(***************************************************************************)
\* what Date.now() may return: it never runs backwards
Now == clock..MaxClock

\* a request that concerns the phase: files, analysis, composition
InvokePhase ==
  \/ handleFilesAdded
  \/ handleFileRemoved
  \/ handleAnalyze
  \/ handleGenerateLP

\* the history and redoHistory entries the screens 1..n hold together
RECURSIVE EntriesHeld(_, _)
EntriesHeld(screens, n) ==
  IF n = 0 THEN 0
  ELSE Len(screens[n].history) + Len(screens[n].redoHistory)
       + EntriesHeld(screens, n - 1)

\* a request that concerns the slides of the composed SwipeLP; a
\* regeneration is requested while the screens hold fewer than maxHist
\* entries
InvokeSlides(maxHist) ==
  \/ \E aistudio \in {"absent", "valid", "invalid"} :
       handleStartVisualPhase(aistudio)
  \/ /\ EntriesHeld(swipeLP.screens, Len(swipeLP.screens)) < maxHist
     /\ \E index \in Slides, now \in Now :
          handleRegenerateVisual(index, now)
  \/ \E index \in Slides, now \in Now : handleUndoVisual(index, now)
  \/ \E index \in Slides, now \in Now : handleRedoVisual(index, now)

\* an awaited promise of handleAnalyze, handleGenerateLP or
\* handleStartVisualPhase settles
SettlePhase ==
  \/ \E profile \in ProviderProfiles : AnalyzeResolves(profile)
  \/ AnalyzeRejects
  \/ \E spec \in {Undefined, ComposedSpec} : ComposeResolves(spec)
  \/ ComposeRejects
  \/ \E base64Image \in ProviderImages : VisRenderResolves(base64Image)
  \/ VisRenderRejects
  \/ VisDelayElapsed

\* an awaited promise of handleRegenerateVisual settles
SettleRegen ==
  \/ \E newSpec \in ProviderSpecs : RegenDesignResolves(newSpec)
  \/ RegenDesignRejects
  \/ \E base64Image \in ProviderImages : RegenImageResolves(base64Image)
  \/ RegenImageRejects

\* an awaited promise settles
Settle == SettlePhase \/ SettleRegen

NoneInFlight ==
  /\ analyze.pc = "idle"
  /\ compose.pc = "idle"
  /\ vis.pc = "idle"
  /\ regen.pc = "idle"
  /\ regenScreen.pc = "idle"

\* One scenario: the phase is driven, one request at a time, until a
\* SwipeLP exists; from then on the slide operations and the visual run
\* interleave freely.
Next ==
  \/ swipeLP.isNull /\ NoneInFlight /\ InvokePhase
  \/ ~swipeLP.isNull /\ InvokeSlides(MaxConcHist)
  \/ Settle

\* The same, one operation at a time: none is requested while another is in
\* flight.
SeqNext ==
  \/ swipeLP.isNull /\ NoneInFlight /\ InvokePhase
  \/ ~swipeLP.isNull /\ NoneInFlight /\ InvokeSlides(MaxHist)
  \/ Settle

\* The phase as the view of App drives it: every control is rendered under
\* hasApiKey (App.tsx:383); the analyze button is disabled while appState
\* is ANALYZING or no file is there (UploadSection.tsx:395), the compose
\* buttons are rendered in ANALYSIS_COMPLETE (App.tsx:423), the start button
\* in LP_CREATED (App.tsx:485).  The requests interleave freely with the
\* calls in flight.
PhaseNext ==
  \/ hasApiKey /\ handleFilesAdded
  \/ hasApiKey /\ handleFileRemoved
  \/ hasApiKey /\ appState # "ANALYZING" /\ handleAnalyze
  \/ hasApiKey /\ appState = "ANALYSIS_COMPLETE" /\ handleGenerateLP
  \/ /\ hasApiKey
     /\ appState = "LP_CREATED"
     /\ \E aistudio \in {"absent", "valid", "invalid"} :
          handleStartVisualPhase(aistudio)
  \/ handleSaveApiKey
  \/ SettlePhase

(***************************************************************************)
(* The initial state: App is mounted, checkApiKey has run (App.tsx:27-52). *)
(***************************************************************************)
Init ==
  /\ hasApiKey = TRUE
  /\ files = 0
  /\ appState = "IDLE"
  /\ productProfile = Undefined
  /\ swipeLP = Null
  /\ error = NoError
  /\ visualProgressIndex = -1
  /\ analyze = Idle
  /\ compose = Idle
  /\ vis = Idle
  /\ regen = Idle
  /\ regenScreen = Idle
  /\ isMangaModeBound \in BOOLEAN
  /\ clock = 0
  /\ retry = RetryIdle
  /\ service = NotApplied
  /\ lastOp = Op("mount", 0, <<>>)
  /\ callLog = <<>>
  /\ runStart = <<>>

Spec == Init /\ [][Next]_vars

SeqSpec == Init /\ [][SeqNext]_vars

PhaseSpec == Init /\ [][PhaseNext]_vars

RetrySpec == Init /\ [][RetryNext]_vars

\* the screens generateSwipeLP may return: NumSlides screens, or none where
\* neither parsed.screens nor parsed.slides is an array
\* (geminiService.ts:365-372)
ComposedScreens ==
  {<<>>} \cup {[i \in Slides |-> ComposedScreen(i, spec)] :
                 spec \in {Undefined, ComposedSpec}}

\* the indices of the entries that hold a screen: the ones an editor is
\* rendered for (AnalysisResult.tsx:555, 869)
Present(screens) == {k \in 1..Len(screens) : ~IsMissing(screens[k])}

\* The phase driven as in PhaseNext, over and over, one operation at a
\* time but for the composition, which may be requested while a
\* regeneration is in flight: the regeneration then settles after the
\* SwipeLP it started from has been replaced.
RecomposeNext ==
  \/ NoneInFlight /\ handleFilesAdded
  \/ NoneInFlight /\ appState # "ANALYZING" /\ handleAnalyze
  \/ /\ analyze.pc = "idle" /\ vis.pc = "idle"
     /\ appState = "ANALYSIS_COMPLETE"
     /\ handleGenerateLP
  \/ /\ ~swipeLP.isNull /\ NoneInFlight
     /\ handleStartVisualPhase("absent")
  \/ /\ ~swipeLP.isNull /\ NoneInFlight
     /\ EntriesHeld(swipeLP.screens, Len(swipeLP.screens)) < MaxConcHist
     /\ \E index \in Present(swipeLP.screens), now \in Now :
          handleRegenerateVisual(index, now)
  \/ \E profile \in ProviderProfiles : AnalyzeResolves(profile)
  \/ AnalyzeRejects
  \/ \E screens \in ComposedScreens : ComposeResolvesWith(screens)
  \/ ComposeRejects
  \/ \E base64Image \in ProviderImages : VisRenderResolves(base64Image)
  \/ VisRenderRejects
  \/ VisDelayElapsed
  \/ SettleRegen
  \/ /\ ~swipeLP.isNull /\ NoneInFlight
     /\ \E index \in Present(swipeLP.screens) :
          \/ \E now \in Now : handleUndoVisual(index, now)
          \/ \E now \in Now : handleRedoVisual(index, now)
          \/ \E value \in TypedTexts : handleTextChange(index, value)
          \/ handleSpecChange(index)
          \/ handleRegenerateScreen(index)
  \/ \E parsedTitle \in ParsedTitles : RegenScreenResolves(parsedTitle)
  \/ RegenScreenRejects

RecomposeSpec == Init /\ [][RecomposeNext]_vars

\* the objects the Members piece of a response text may spell; where no
\* members are parsed what they spell is never read, and one object stands
\* for all
SpelledBy(text, objects, empty) ==
  LET response == parseJsonResponse(text)
  IN IF response.raised = "none" /\ response.result.object.members
     THEN objects
     ELSE {empty}

\* one function of the service is applied, once, to one of the arguments
\* considered
ServiceNext ==
  \/ /\ service = NotApplied
     /\ \E text \in TextsOver(CopyChars, MaxCopyLen) :
          ApplySanitizeCopy(text)
  \/ /\ service = NotApplied
     /\ \E text \in TextsOver(ResponsePieces, MaxTextLen) :
          ApplyParseJsonResponse(text)
  \/ /\ service = NotApplied
     /\ \E text \in TextsOver(ResponsePieces, MaxResponseLen) :
          \E spelled \in SpelledBy(text, ParsedProfiles, NoProfileFields) :
            analyzeProductContext(text, spelled)
  \/ /\ service = NotApplied
     /\ \E text \in TextsOver(ResponsePieces, MaxResponseLen) :
          \E spelled \in SpelledBy(text, ParsedLPs, NoLPFields) :
            generateSwipeLP(text, spelled)

ServiceSpec == Init /\ [][ServiceNext]_vars

\* every awaited operation() and delay() settles
RetryFairSpec == RetrySpec /\ WF_vars(RetryNext)

(***************************************************************************)
(* Properties of retryWithBackoff.                                         *)
(***************************************************************************)
RECURSIVE Pow(_, _)
Pow(b, n) == IF n = 0 THEN 1 ELSE b * Pow(b, n - 1)

RetrySettled == retry.pc \in {"returned", "raised"}

\* the claims' own reading of a retryable error: a rate-limit, quota or
\* overload signal in the status or in the message
SignalsRetryable(e) ==
  \/ e.status \in {429, 503}
  \/ e.message \cap {"429", "quota", "503"} # {}

\* C4: retryWithBackoff invokes the operation at most maxAttempts times and
\* then always finishes: it returns the value of a successful attempt, or it
\* raises, and what it raises is the operation's last error, unchanged.
C4_BoundedAndFinishes ==
  /\ [](retry.attempts <= retry.retries)
  /\ [](retry.pc = "returned" =>
          /\ retry.result \in OperationValues
          /\ retry.attempts = Len(retry.opErrors) + 1)
  /\ [](retry.pc = "raised" =>
          /\ retry.attempts = Len(retry.opErrors)
          /\ retry.opErrors # <<>>
          /\ retry.raised = retry.opErrors[Len(retry.opErrors)])
  /\ (retry.pc \in {"attempt", "sleep"}) ~> RetrySettled

\* all attempts used up, each failed attempt retryable, the last error raised
C4_Witness ==
  /\ retry.pc = "raised"
  /\ retry.retries = DefaultRetries
  /\ retry.attempts = retry.retries
  /\ Len(retry.sleeps) = retry.retries - 1

\* C5: when the first attempt fails with an error that is not a rate-limit,
\* quota or overload error, the operation is attempted exactly once, nothing
\* is slept and that very error is raised.
C5_TerminalShortCircuit ==
  (retry.opErrors # <<>> /\ ~SignalsRetryable(retry.opErrors[1])) =>
    /\ retry.pc = "raised"
    /\ retry.attempts = 1
    /\ retry.sleeps = <<>>
    /\ retry.raised = retry.opErrors[1]

C5_Witness ==
  /\ retry.pc = "raised"
  /\ retry.retries = DefaultRetries
  /\ retry.attempts = 1
  /\ retry.raised = Thrown([status |-> 401, message |-> {}], 1)

\* C6: after k retryable failures and then a success, k < maxAttempts, there
\* were exactly k sleeps, the j-th (from 0) of initialDelay * factor^j, and
\* k + 1 attempts, and the success value is returned.
C6_RetryTiming ==
  retry.pc = "returned" =>
    LET k == Len(retry.opErrors)
    IN /\ k < retry.retries
       /\ \A j \in 1..k : SignalsRetryable(retry.opErrors[j])
       /\ Len(retry.sleeps) = k
       /\ \A j \in 1..k :
            retry.sleeps[j] = retry.initialDelay * Pow(retry.factor, j - 1)
       /\ retry.attempts = k + 1
       /\ retry.result \in OperationValues

C6_Witness ==
  /\ retry.pc = "returned"
  /\ retry.initialDelay = DefaultInitialDelay
  /\ retry.factor = DefaultFactor
  /\ retry.sleeps = <<2000, 4000>>
  /\ retry.attempts = 3

(***************************************************************************)
(* Properties of the visual run.                                           *)
(***************************************************************************)
\* the run has issued a Provider call for slide i
Called(i) == \E k \in 1..Len(callLog) : callLog[k] = Started(i)

\* the slides whose Provider call failed in the run: the set F
Failed(i) == \E k \in 1..Len(callLog) : callLog[k] = Ended(i, FALSE)

\* the turn of every slide of the run is over
TurnsOver ==
  /\ vis.pc = "delay"
  /\ vis.i = Len(vis.currentScreens)

\* C1: within one run of the visual pipeline the Provider calls are issued
\* in strictly ascending slide position and never overlap: when the call for
\* a slide starts, every event before it concerns a lower slide, and every
\* call started before it has returned or raised.
C1_AscendingNoOverlap ==
  \A k \in 1..Len(callLog) :
    callLog[k].ev = "start" =>
      \A j \in 1..(k - 1) :
        /\ callLog[j].slide < callLog[k].slide
        /\ callLog[j].ev = "start" =>
             \E m \in (j + 1)..(k - 1) :
               /\ callLog[m].ev = "end"
               /\ callLog[m].slide = callLog[j].slide

\* the call for slide 1 has returned and the call for slide 2 is in flight,
\* while a regeneration is in flight too
C1_Witness ==
  /\ vis.pc = "render"
  /\ callLog = <<Started(1), Ended(1, TRUE), Started(2)>>
  /\ regen.pc = "image"

\* C2: a run that has entered GENERATING_VISUALS stays in that phase, whatever
\* slides fail, until it ends in VISUALS_COMPLETE, and when the turns of all
\* slides are over every slide that lacked an image at the start of the run
\* and whose Provider call did not fail has an image.
C2_EverySlideOutsideFRendered ==
  /\ vis.pc # "idle" => appState = "GENERATING_VISUALS"
  /\ lastOp.op = "visualsFinished" => appState = "VISUALS_COMPLETE"
  /\ TurnsOver =>
       \A i \in 1..Len(runStart) :
         (runStart[i].imageData = Undefined /\ ~Failed(i)) =>
           swipeLP.screens[i].imageData # Undefined

\* the screen lacks a design spec or an image
Lacks(screen) ==
  \/ screen.designSpec = Undefined
  \/ screen.imageData = Undefined

\* this step issues the Provider call for slide i
CallStarts(i) ==
  /\ Len(callLog') = Len(callLog) + 1
  /\ callLog'[Len(callLog')] = Started(i)

\* C3: a run issues a Provider call for slide i only if slide i lacks a
\* design spec or an image when its turn comes; a slide that has both at the
\* start of the run receives no Provider call, and its design spec and image
\* stay what they were.
C3_Resumability ==
  /\ [][\A i \in Slides : CallStarts(i) => Lacks(swipeLP.screens[i])]_vars
  /\ [](\A i \in 1..Len(runStart) :
          ~Lacks(runStart[i]) =>
            /\ ~Called(i)
            /\ swipeLP.screens[i].designSpec = runStart[i].designSpec
            /\ swipeLP.screens[i].imageData = runStart[i].imageData)

\* a run over a set whose slide 1 had both and whose slide 2 had no image:
\* the only call was for slide 2
C3_Witness ==
  /\ TurnsOver
  /\ ~Lacks(runStart[1])
  /\ runStart[2].imageData = Undefined
  /\ callLog = <<Started(2), Ended(2, TRUE)>>

(***************************************************************************)
(* Properties of the version history.                                      *)
(***************************************************************************)
\* the (DesignSpec, image) pair of a screen or of a history entry
PairOf(e) == <<e.designSpec, e.imageData>>

PairsOf(entries) == [k \in 1..Len(entries) |-> PairOf(entries[k])]

\* the current pair of a screen and the pairs of its two stacks
Versions(screen) ==
  [current |-> PairOf(screen),
   undoStack |-> PairsOf(screen.history),
   redoStack |-> PairsOf(screen.redoHistory)]

\* C7: undo immediately followed by redo, on a slide whose history is not
\* empty, leaves the current pair, and the pairs of the history and the
\* redoHistory in their order, as they were before the undo.
C7_UndoRedoRoundTrip ==
  (lastOp.op = "redo" /\ lastOp.start # <<>>) =>
    Versions(swipeLP.screens[lastOp.index]) = Versions(lastOp.start[1])

\* the round trip from a regenerated screen with an image
C7_Witness ==
  /\ lastOp.op = "redo"
  /\ lastOp.start # <<>>
  /\ lastOp.start[1].imageData # Undefined
  /\ lastOp.start[1].history # <<>>
  /\ lastOp.start[1].redoHistory = <<>>

\* this step is handleUndoVisual(i)
UndoStep(i) ==
  /\ lastOp'.op = "undo"
  /\ lastOp'.index = i

\* C8: undo on a slide whose history is empty changes nothing; otherwise the
\* last history entry is removed and becomes the current pair, and the pair
\* that was current is pushed on top of the redoHistory (history one
\* shorter, redoHistory one longer).
C8_Undo ==
  [][\A i \in Slides :
       UndoStep(i) =>
         LET before == swipeLP.screens[i]
             after == swipeLP'.screens[i]
             n == Len(before.history)
         IN IF n = 0
            THEN UNCHANGED <<appVars, actVars, envVars, retry, service, callLog,
                             runStart>>
            ELSE /\ PairOf(after) = PairOf(before.history[n])
                 /\ PairsOf(after.history) =
                      PairsOf(SubSeq(before.history, 1, n - 1))
                 /\ PairsOf(after.redoHistory) =
                      Append(PairsOf(before.redoHistory), PairOf(before))
                 /\ Len(after.history) = n - 1
                 /\ Len(after.redoHistory) = Len(before.redoHistory) + 1]_vars

\* an undo of a regeneration has put the second entry on the redoHistory
C8_Witness ==
  /\ lastOp.op = "undo"
  /\ lastOp.start # <<>>
  /\ Len(swipeLP.screens[lastOp.index].redoHistory) = 2

\* this step is handleRedoVisual(i)
RedoStep(i) ==
  /\ lastOp'.op = "redo"
  /\ lastOp'.index = i

\* C9: redo on a slide whose redoHistory is empty changes nothing; otherwise
\* the last redoHistory entry is removed and becomes the current pair, and
\* the pair that was current is pushed on top of the history (redoHistory
\* one shorter, history one longer).
C9_Redo ==
  [][\A i \in Slides :
       RedoStep(i) =>
         LET before == swipeLP.screens[i]
             after == swipeLP'.screens[i]
             n == Len(before.redoHistory)
         IN IF n = 0
            THEN UNCHANGED <<appVars, actVars, envVars, retry, service, callLog,
                             runStart>>
            ELSE /\ PairOf(after) = PairOf(before.redoHistory[n])
                 /\ PairsOf(after.redoHistory) =
                      PairsOf(SubSeq(before.redoHistory, 1, n - 1))
                 /\ PairsOf(after.history) =
                      Append(PairsOf(before.history), PairOf(before))
                 /\ Len(after.redoHistory) = n - 1
                 /\ Len(after.history) = Len(before.history) + 1]_vars

\* a redo that took one of two redoHistory entries
C9_Witness ==
  /\ lastOp.op = "redo"
  /\ Len(swipeLP.screens[lastOp.index].redoHistory) = 1
  /\ Len(swipeLP.screens[lastOp.index].history) = 1

\* C10: a successful regeneration of a slide's visual pushes the pair the
\* slide had at the call on top of its history, whose older entries keep
\* their order, and leaves its redoHistory empty whatever it held before.
C10_RegeneratePushesPreCallPair ==
  lastOp.op = "regenerated" =>
    LET before == lastOp.start[1]
        after == swipeLP.screens[lastOp.index]
    IN /\ PairsOf(after.history) =
            Append(PairsOf(before.history), PairOf(before))
       /\ Len(after.history) = Len(before.history) + 1
       /\ after.redoHistory = <<>>

\* a regeneration of a screen whose redoHistory held an entry
C10_Witness ==
  /\ lastOp.op = "regenerated"
  /\ lastOp.start[1].redoHistory # <<>>

(***************************************************************************)
(* Properties of the phase.                                                *)
(***************************************************************************)
\* this step takes appState from another value to phase
Enters(phase) == appState' = phase /\ appState # phase

\* C11: the phase changes only along the listed transitions: ANALYZING is
\* entered only from IDLE, ANALYSIS_COMPLETE only from ANALYZING or
\* GENERATING_LP, GENERATING_LP only from ANALYSIS_COMPLETE, LP_CREATED only
\* from GENERATING_LP, GENERATING_VISUALS only from LP_CREATED and
\* VISUALS_COMPLETE only from GENERATING_VISUALS; a request made in another
\* phase leaves the phase as it is.
C11_PhaseTransitions ==
  [][/\ Enters("ANALYZING") => appState = "IDLE"
     /\ Enters("ANALYSIS_COMPLETE") =>
          appState \in {"ANALYZING", "GENERATING_LP"}
     /\ Enters("GENERATING_LP") => appState = "ANALYSIS_COMPLETE"
     /\ Enters("LP_CREATED") => appState = "GENERATING_LP"
     /\ Enters("GENERATING_VISUALS") => appState = "LP_CREATED"
     /\ Enters("VISUALS_COMPLETE") => appState = "GENERATING_VISUALS"]_vars

\* this step is the catch block of handleAnalyze
AnalysisFails ==
  /\ InFlight(analyze') = InFlight(analyze) - 1
  /\ lastOp'.op = "analysisFailed"

\* C12: when the analyze call fails while the phase is ANALYZING the phase
\* becomes ERROR with the reason attached, and it stays ERROR: no step leaves
\* it (the code has no reset).
C12_AnalysisFailureIsFailed ==
  /\ [][(AnalysisFails /\ appState = "ANALYZING") =>
          /\ appState' = "ERROR"
          /\ error' # NoError]_vars
  /\ [][appState = "ERROR" => appState' = "ERROR"]_vars

\* this step is the catch block of handleGenerateLP
ScenarioFails ==
  /\ compose.pc = "call"
  /\ compose'.pc = "idle"
  /\ lastOp'.op = "scenarioFailed"

C14_OneAnalysisInFlight == InFlight(analyze) <= 1

\* the number of Provider calls the handlers are awaiting
ProviderCallsInFlight ==
  InFlight(analyze)
  + (IF compose.pc = "call" THEN 1 ELSE 0)
  + (IF vis.pc = "render" THEN 1 ELSE 0)
  + (IF regen.pc \in {"design", "image"} THEN 1 ELSE 0)

\* C15: at most one Provider call is in flight, whatever the interleaving
\* of handleAnalyze, handleGenerateLP, handleStartVisualPhase and the
\* regenerations.
C15_OneProviderCallInFlight == ProviderCallsInFlight <= 1

\* this step ends a call of analyzeProductContext, of generateSwipeLP, of
\* the visual run's generateSwipeScreenImage
AnalyzeSettles == InFlight(analyze') < InFlight(analyze)
ComposeSettles == compose.pc = "call" /\ compose'.pc = "idle"
RenderSettles == vis.pc = "render" /\ vis'.pc # "render"

\* C16: a Provider call that settles when the phase is no longer the one
\* its handler set on issuing it (ANALYZING, GENERATING_LP,
\* GENERATING_VISUALS) is discarded: the step changes neither the profile,
\* nor the slide set, nor the phase.
C16_StaleResultDiscarded ==
  [][/\ (AnalyzeSettles /\ appState # "ANALYZING")
          => UNCHANGED <<productProfile, swipeLP, appState>>
     /\ (ComposeSettles /\ appState # "GENERATING_LP")
          => UNCHANGED <<productProfile, swipeLP, appState>>
     /\ (RenderSettles /\ appState # "GENERATING_VISUALS")
          => UNCHANGED <<productProfile, swipeLP, appState>>]_vars

(***************************************************************************)
(* Properties of the slides under interleaving.                            *)
(***************************************************************************)
\* this step ends, with an image, a generateSwipeScreenImage call made for
\* slide i by the visual run or by handleRegenerateVisual
ImageArrives(i) ==
  \/ /\ vis.pc = "render"
     /\ vis.i = i
     /\ callLog' = Append(callLog, Ended(i, TRUE))
  \/ /\ regen.pc = "image"
     /\ regen.index = i
     /\ lastOp'.op = "regenerated"

\* the step before this one was an undo or a redo on slide i
UserChanged(i) == lastOp.op \in {"undo", "redo"} /\ lastOp.index = i

GenerationFailed(i) ==
  \/ Failed(i)
  \/ \E k \in 1..Len(callLog) : callLog[k] = Caught(i)

\* C18: when the turn of the last slide of a run is over, the error state
\* records every slide whose generation failed in the run, and records
\* nothing if none failed.
C18_EveryFailureRecorded ==
  TurnsOver =>
    /\ \A i \in 1..Len(vis.currentScreens) :
         GenerationFailed(i) => error = SlideError(i)
    /\ (\A i \in 1..Len(vis.currentScreens) : ~GenerationFailed(i))
         => error = NoError

\* no two positions of the sequence hold the same value
NoDuplicate(seq) ==
  \A j, k \in 1..Len(seq) : j # k => seq[j] # seq[k]

\* C19: for every slide, no (designSpec, imageData) version is twice in the
\* history or twice in the redoHistory, none is in both, and none of them
\* is the slide's current pair.
C19_StacksDisjointNoDuplicate ==
  \A i \in 1..Len(swipeLP.screens) :
    LET v == Versions(swipeLP.screens[i])
    IN /\ NoDuplicate(v.undoStack)
       /\ NoDuplicate(v.redoStack)
       /\ Range(v.undoStack) \cap Range(v.redoStack) = {}
       /\ v.current \notin Range(v.undoStack) \cup Range(v.redoStack)

\* C20: the per-slide history is bounded by a fixed capacity.  The handlers
\* hold no capacity, so the statement is made for the largest capacity the
\* requests considered could exceed: whatever number MaxHist of
\* regenerations is requested, the history and the redoHistory of every
\* slide stay shorter than MaxHist.
C20_HistoryBounded ==
  \A i \in 1..Len(swipeLP.screens) :
    /\ Len(swipeLP.screens[i].history) < MaxHist
    /\ Len(swipeLP.screens[i].redoHistory) < MaxHist

(***************************************************************************)
(* Properties of the functions of geminiService.                           *)
(***************************************************************************)
\* C23: sanitizeCopy is idempotent: applied to its own result it returns
\* that result.
C23_SanitizeCopyIdempotent ==
  service.fn = "sanitizeCopy" =>
    sanitizeCopy(service.result.text) = service.result.text

StringFields ==
  {"productName", "category", "targetAudience", "uniqueValueProposition",
   "toneOfVoice"}
ArrayFields == {"painPoints", "solutions"}

NonEmptyString(value) == value.type = "string" /\ value.items # <<>>

\* C21: for every object parsed from the response, the profile returned
\* has arrays as painPoints and solutions (the empty array where the field
\* was absent or no array) and non-empty strings as productName, category,
\* targetAudience, uniqueValueProposition and toneOfVoice (the placeholder
\* where the field was absent or empty); a well-formed field is returned
\* as it was; and the sanitization raises nothing: analyzeProductContext
\* raises only what parseJsonResponse raised.
C21_ProfileSanitized ==
  service.fn = "analyzeProductContext" =>
    /\ service.raised # "none" =>
         parseJsonResponse(service.input.text).raised = service.raised
    /\ service.raised = "none" =>
         LET parsed == service.input.parsed
             profile == service.result.profile
         IN /\ \A f \in ArrayFields :
                 /\ isArray(profile[f])
                 /\ isArray(parsed[f]) => profile[f] = parsed[f]
                 /\ ~isArray(parsed[f]) => profile[f] = JArray(<<>>)
            /\ \A f \in StringFields :
                 /\ NonEmptyString(profile[f])
                 /\ NonEmptyString(parsed[f]) => profile[f] = parsed[f]
                 /\ Falsy(parsed[f]) => profile[f] = Placeholder(f)

\* some stretch of the text spells an object
ContainsObject(text) ==
  \E i, j \in 1..Len(text) : i < j /\ SpellsObject(SubSeq(text, i, j))

\* C22: parseJsonResponse, and analyzeProductContext and generateSwipeLP
\* after it, raise exactly when the response text contains no object: a
\* text without one raises, and a text with one yields a result whatever
\* fields the object lacks.
C22_RaisesIffNoObject ==
  service.fn \in {"parseJsonResponse", "analyzeProductContext",
                  "generateSwipeLP"} =>
    (service.raised # "none" <=> ~ContainsObject(service.input.text))

(***************************************************************************)
(* Properties of the visual pipeline's steps for one slide.                *)
(***************************************************************************)
\* the design specs a Provider call returns: with the scenario
\* (part_001:624-637) or from regenerateDesignSpec
FromProvider == ProviderSpecs \cup {ComposedSpec}

C25_DelayAfterEveryEntry ==
  [][/\ (vis.pc = "idle" /\ vis'.pc # "idle") => vis'.i = 1
     /\ (vis.pc # "idle" /\ vis'.pc # "idle" /\ vis'.i # vis.i) =>
          vis.pc = "delay" /\ vis'.i = vis.i + 1
     /\ (vis.pc # "idle" /\ vis'.pc = "idle") =>
          vis.pc = "delay" /\ vis.i = Len(vis.currentScreens)
     /\ (vis.pc = "idle" /\ lastOp'.op = "visualsFinished") =>
          swipeLP.screens = <<>>]_vars

(***************************************************************************)
(* Properties of the slide operations.                                     *)
(***************************************************************************)
\* this step belongs to an operation on slide i: an undo, a redo or an edit
\* of it, or a step of a regeneration of its visual or of its copy
OperationOn(i) ==
  \/ lastOp'.op \in {"undo", "redo", "updateSlide"} /\ lastOp'.index = i
  \/ regen.pc = "idle" /\ regen'.pc # "idle" /\ regen'.index = i
  \/ regen.pc # "idle" /\ regen.index = i /\ regen' # regen
  \/ /\ regenScreen.pc = "idle" /\ regenScreen'.pc # "idle"
     /\ regenScreen'.index = i
  \/ /\ regenScreen.pc # "idle" /\ regenScreen.index = i
     /\ regenScreen' # regenScreen

\* C26: a step of an operation on slide i leaves the SlideSet with as many
\* entries as before, and every other slide with the pair, the history and
\* the redoHistory it had.
C26_OtherSlidesUntouched ==
  [][\A i \in Slides :
       OperationOn(i) /\ ~swipeLP.isNull =>
         /\ Len(swipeLP'.screens) = Len(swipeLP.screens)
         /\ \A j \in 1..Len(swipeLP.screens) :
              j # i =>
                LET before == swipeLP.screens[j]
                    after == swipeLP'.screens[j]
                IN /\ PairOf(after) = PairOf(before)
                   /\ after.history = before.history
                   /\ after.redoHistory = before.redoHistory]_vars

\* the step puts another value where screen before held a design spec, or
\* where it held an image
Overwrites(before, after) ==
  \/ before.designSpec # Undefined /\ after.designSpec # before.designSpec
  \/ before.imageData # Undefined /\ after.imageData # before.imageData

\* C27: a step that overwrites the design spec or the image of a slide
\* leaves the overwritten pair as the last entry of the slide's history, so
\* that one undo restores it.  Undo and redo, which move the pair between
\* the stacks, and the composition of a new SlideSet are not such steps.
C27_OverwrittenPairPushed ==
  [][(~swipeLP.isNull /\ lastOp'.op \notin {"undo", "redo"}
        /\ ~ComposeSettles) =>
       \A j \in Present(swipeLP.screens) :
         LET before == swipeLP.screens[j]
             after == swipeLP'.screens[j]
         IN Overwrites(before, after) =>
              /\ after.history # <<>>
              /\ PairOf(after.history[Len(after.history)]) =
                   PairOf(before)]_vars

(***************************************************************************)
(* Properties of the Profile and the SlideSet together.                    *)
(***************************************************************************)
\* the phases from the composed scenario on
ScenarioReadyOn == {"LP_CREATED", "GENERATING_VISUALS", "VISUALS_COMPLETE"}

\* C28: while a SlideSet is retained the Profile stays the one it was
\* composed from: no step but the composition of a new SlideSet changes or
\* clears the Profile, and a state with a SlideSet has a Profile and a
\* phase from the composed scenario on.
C28_ProfileFixedWhileSlideSetRetained ==
  [][/\ (~swipeLP.isNull /\ ~ComposeSettles) =>
          productProfile' = productProfile
     /\ ~swipeLP'.isNull =>
          /\ productProfile' # Undefined
          /\ appState' \in ScenarioReadyOn]_vars

\* C29: a regeneration of the copy of a slide that succeeded has left the
\* slide with the order, the design spec, the image, the history and the
\* redoHistory it had at the call.
C29_RegenerateCopyKeepsVisual ==
  lastOp.op = "regeneratedCopy" =>
    LET before == lastOp.start[1]
        after == swipeLP.screens[lastOp.index]
    IN /\ after.order = before.order
       /\ PairOf(after) = PairOf(before)
       /\ after.history = before.history
       /\ after.redoHistory = before.redoHistory

\* the step in which the image step of a regeneration fails: the call of
\* generateSwipeScreenImage rejects, or the handler throws before it
ImageStepFails ==
  \/ RegenImageRejects
  \/ /\ lastOp'.op = "regenerateFailed"
     /\ \E newSpec \in ProviderSpecs : RegenDesignResolves(newSpec)

\* C30: a failed regeneration of a slide's visual does not lose the version
\* the slide had at the call.  Where the design step fails the slide is
\* left with the pair, the history and the redoHistory of the call; where
\* the image step fails the pair of the call is the last entry of the
\* history, and an undo makes it the current pair.
C30_FailedRegenerationKeepsPreCallVersion ==
  [][/\ RegenDesignRejects =>
          LET before == regen.screen
              after == swipeLP'.screens[regen.index]
          IN /\ PairOf(after) = PairOf(before)
             /\ after.history = before.history
             /\ after.redoHistory = before.redoHistory
     /\ ImageStepFails =>
          LET before == regen.screen
              after == swipeLP'.screens[regen.index]
              n == Len(after.history)
          IN /\ n > 0
             /\ PairOf(after.history[n]) = PairOf(before)
             /\ PairOf(UndoScreen(after, clock')) = PairOf(before)]_vars

\* the image step of a regeneration has failed on a slide that had a design
\* spec and an image at the call
C30_Witness ==
  /\ lastOp.op = "regenerateFailed"
  /\ lastOp.start[1].designSpec # Undefined
  /\ lastOp.start[1].imageData # Undefined
  /\ Len(swipeLP.screens[lastOp.index].history) =
       Len(lastOp.start[1].history) + 1
====
